---------------------------- MODULE Spec2Model ----------------------------
(***************************************************************************)
(* Form platform (forms-api): the form lifecycle service FormService, the  *)
(* FieldValidator, the Calculator, the dependency Graph and the Prisma     *)
(* repository, as one state machine.                                       *)
(*                                                                         *)
(* JavaScript values are records [k, n, s, a] (kind, number, string,       *)
(* array) so that values of different kinds can be compared.  A string the *)
(* code splits on "=" is a sequence of tokens: the token "=" for each "="  *)
(* character and one token for each maximal run of other characters.       *)
(* A formula is the sequence of its operands; it denotes their sum.        *)
(*                                                                         *)
(* Specifications:                                                         *)
(*   SpecForms   Create, UpdateSchema and SoftDeleteForm from an empty     *)
(*               database;                                                 *)
(*   Spec        the same with SubmitResponse;                             *)
(*   SpecSubmit  SubmitResponse and SoftDeleteResponse on a form inserted  *)
(*               by the seed script (required, conditional and chained     *)
(*               calculated fields, which Create does not accept);         *)
(*   SpecCycle   one Create or UpdateSchema with any field list of a       *)
(*               family, repeated ids included;                            *)
(*   SpecGraph   the Graph component.                                      *)
(***************************************************************************)
EXTENDS Integers, Sequences, FiniteSets, TLC

VARIABLES
    forms,          \* table "Form": form id -> row, for the ids that have one
    responses,      \* table "Response": a set of rows, keyed by id
    audit,          \* the lines logger.info appended to audit.log
    now,            \* the clock read by new Date() and Date.now()
    lastOp,         \* the last service call: its arguments and its outcome
    adjacencyList,  \* Graph.adjacencyList: [keys: insertion order, adj: node -> neighbours]
    cycle,          \* the result of the last Graph.hasCycle()
    pending         \* the calls suspended at the await of their repository write

vars == <<forms, responses, audit, now, lastOp, adjacencyList, cycle, pending>>

-----------------------------------------------------------------------------
(* Bounds of the exploration *)

MaxVersion == 3       \* UpdateSchema is explored while schema_version < MaxVersion
MaxTime == 1          \* the clock runs over 0..MaxTime
MaxResponses == 2     \* SubmitResponse is explored while fewer responses are stored
MaxEdges == 3         \* Graph.addEdge is explored while fewer edges are stored
MaxCampos == 3        \* the field lists of SpecCycle have up to MaxCampos fields
MaxPending == 2       \* calls suspended at one time
MaxLog == 5           \* overlapping calls are explored while fewer entries are logged

-----------------------------------------------------------------------------
(* JavaScript values *)

Undefined == [k |-> "undefined", n |-> 0, s |-> "", a |-> <<>>]
Num(x)    == [k |-> "number", n |-> x, s |-> "", a |-> <<>>]
Half(x)   == [k |-> "number", n |-> x, s |-> ".5", a |-> <<>>]   \* the number x + 0.5
Str(x)    == [k |-> "string", n |-> 0, s |-> x, a |-> <<>>]
Bool(b)   == [k |-> "boolean", n |-> IF b THEN 1 ELSE 0, s |-> "", a |-> <<>>]
Arr(xs)   == [k |-> "array", n |-> 0, s |-> "", a |-> xs]

\* An optional property: absent (undefined), or set to v.
None(d) == [def |-> FALSE, v |-> d]
Some(x) == [def |-> TRUE, v |-> x]

\* obj[key] on a Record<string, unknown>
Get(obj, key) == IF key \in DOMAIN obj THEN obj[key] ELSE Undefined

Range(seq) == {seq[i] : i \in DOMAIN seq}

\* An optional integer argument: Absent stands for undefined.
Absent == -1

-----------------------------------------------------------------------------
(* Field definitions (Field of domain/entities/Form) *)

\* A field with every optional property absent.
Field(id, tipo) ==
    [id |-> id, tipo |-> tipo, obrigatorio |-> FALSE,
     condicional |-> <<>>,            \* tokens; <<>> is absent (or "")
     formula |-> <<>>,                \* operands; <<>> is absent (or "")
     dependencias |-> None(<<>>),
     precisao |-> Absent,
     tamanho_minimo |-> 0,            \* validacoes: {tipo: "tamanho_minimo", valor}
     regex |-> "",                    \* validacoes: {tipo: "regex", valor: RegExp}
     formato |-> "",
     minimo |-> Absent, maximo |-> Absent,
     multipla |-> FALSE, opcoes |-> <<>>,
     minima |-> "", maxima |-> ""]

-----------------------------------------------------------------------------
(* FieldValidator (zod schemas) *)

\* RegExp.test on the patterns and strings of the catalogue.
RegexTest(pattern, s) ==
    CASE pattern = "^[A-Z].*" -> s \in {"John Doe", "Ana"}
      [] OTHER -> TRUE

NaN == -1
\* Date.parse on the strings of the catalogue: the year, or NaN.
DateParse(s) ==
    CASE s = "1999-12-31" -> 1999
      [] s = "2000-01-01" -> 2000
      [] s = "2020-01-01" -> 2020
      [] s = "2025-12-31" -> 2025
      [] s = "2026-01-01" -> 2026
      [] OTHER -> NaN


\* The schema methods getValidator calls that a ZodOptional does not have:
\* calling one throws a TypeError while the schema is being built.
TextCallsStringMethod(field) == field.tamanho_minimo > 0 \/ field.regex # ""
NumberCallsNumberMethod(field) ==
    field.formato = "inteiro" \/ field.minimo # Absent \/ field.maximo # Absent

\* A variant of applyTextValidations that lets an absent value through;
\* C19_RequiredFields tells it from the code.
applyTextAceitaAusente(value, field) ==
    IF value = Undefined THEN "ok"
    ELSE IF value.k # "string" THEN "Expected string"
    ELSE IF field.tamanho_minimo > 0 /\ Len(value.s) < field.tamanho_minimo
         THEN "Tamanho minimo"
    ELSE IF field.regex # "" /\ ~RegexTest(field.regex, value.s) THEN "Formato invalido"
    ELSE "ok"

applyTextValidations(value, field) ==
    IF ~field.obrigatorio /\ TextCallsStringMethod(field) THEN "TypeError"
    ELSE IF value = Undefined THEN (IF field.obrigatorio THEN "Required" ELSE "ok")
    ELSE IF value.k # "string" THEN "Expected string"
    ELSE IF field.tamanho_minimo > 0 /\ Len(value.s) < field.tamanho_minimo
         THEN "Tamanho minimo"
    ELSE IF field.regex # "" /\ ~RegexTest(field.regex, value.s) THEN "Formato invalido"
    ELSE "ok"

applyNumberValidations(value, field) ==
    IF ~field.obrigatorio /\ NumberCallsNumberMethod(field) THEN "TypeError"
    ELSE IF value = Undefined THEN (IF field.obrigatorio THEN "Required" ELSE "ok")
    ELSE IF value.k # "number" THEN "Expected number"
    ELSE IF field.formato = "inteiro" /\ value.s # "" THEN "Esperado inteiro"
    \* x + 0.5 >= minimo iff x >= minimo; x + 0.5 <= maximo iff x < maximo
    ELSE IF field.minimo # Absent /\ value.n < field.minimo THEN "Valor minimo"
    ELSE IF field.maximo # Absent
            /\ (value.n > field.maximo \/ (value.s # "" /\ value.n = field.maximo))
         THEN "Valor maximo"
    ELSE "ok"

applyBooleanValidations(value, field) ==
    IF value = Undefined THEN (IF field.obrigatorio THEN "Required" ELSE "ok")
    ELSE IF value.k # "boolean" THEN "Expected boolean"
    ELSE "ok"

applyDateValidations(value, field) ==
    IF value = Undefined THEN (IF field.obrigatorio THEN "Required" ELSE "ok")
    ELSE IF value.k # "string" THEN "Expected string"
    ELSE IF value.s = "" THEN "ok"                      \* !val
    ELSE IF DateParse(value.s) = NaN THEN "Data invalida"
    \* a comparison with an Invalid Date is false
    ELSE IF field.minima # ""
            /\ (DateParse(field.minima) = NaN \/ DateParse(value.s) < DateParse(field.minima))
         THEN "Data deve ser apos"
    ELSE IF field.maxima # ""
            /\ (DateParse(field.maxima) = NaN \/ DateParse(value.s) > DateParse(field.maxima))
         THEN "Data deve ser antes"
    ELSE "ok"

applySelectValidations(value, field) ==
    LET options == Range(field.opcoes)
    IN  IF field.multipla
        THEN \* z.array(z.string()).refine(every): the base schema, and with it
             \* .optional(), is dropped
             IF value = Undefined THEN "Required"
             ELSE IF value.k # "array" THEN "Expected array"
             ELSE IF \E i \in DOMAIN value.a : value.a[i] \notin options
                  THEN "Opcao invalida"
             ELSE "ok"
        ELSE IF value = Undefined
             THEN (IF field.obrigatorio THEN "Required"
                   ELSE "Opcao invalida")              \* options.includes(undefined)
             ELSE IF value.k # "string" THEN "Expected string"
             ELSE IF value.s \notin options THEN "Opcao invalida"
             ELSE "ok"

\* A variant of applyCalculatedValidations that asks for the formula alone;
\* C18_IncompleteCalculatedRejected tells it from the code.
applyCalculatedSoFormula(value, field) ==
    IF field.formula = <<>>
    THEN "Campo calculado deve ter formula e dependencias"
    ELSE IF value # Undefined THEN "Expected undefined"
    ELSE "ok"

applyCalculatedValidations(value, field) ==
    IF field.formula = <<>> \/ ~field.dependencias.def
    THEN "Campo calculado deve ter formula e dependencias"
    ELSE IF value # Undefined THEN "Expected undefined"  \* z.undefined() aborts the parse
    ELSE "ok"

\* FieldValidator.validate: "ok", or the error it rejects with.
validate(value, field) ==
    CASE field.tipo = "text" -> applyTextValidations(value, field)
      [] field.tipo = "number" -> applyNumberValidations(value, field)
      [] field.tipo = "boolean" -> applyBooleanValidations(value, field)
      [] field.tipo = "date" -> applyDateValidations(value, field)
      [] field.tipo = "select" -> applySelectValidations(value, field)
      [] field.tipo = "calculated" -> applyCalculatedValidations(value, field)
      [] OTHER -> "Unsupported field type"

\* A variant of validarCampos that accepts every field list;
\* C5_AllOrNothing tells it from the code.
validarCamposAceitaTudo(campos) == "ok"

\* FormService.validarCampos: the first error of validate(undefined, campo), or "ok".
RECURSIVE validarCampos(_)
validarCampos(campos) ==
    IF campos = <<>> THEN "ok"
    ELSE LET r == validate(Undefined, Head(campos))
         IN  IF r # "ok" THEN r ELSE validarCampos(Tail(campos))

-----------------------------------------------------------------------------
(* FormService.avaliarCondicional *)

\* String.prototype.split("=") on a token sequence: the parts between the "="
\* tokens, an empty part where two "=" are adjacent or one is at an end.
RECURSIVE SplitFrom(_, _, _)
SplitFrom(tokens, i, part) ==
    IF i > Len(tokens) THEN <<part>>
    ELSE IF tokens[i] = "=" THEN <<part>> \o SplitFrom(tokens, i + 1, "")
    ELSE SplitFrom(tokens, i + 1, part \o tokens[i])

Split(tokens) == SplitFrom(tokens, 1, "")

\* A variant of avaliarCondicional for which every well-formed condition holds;
\* C8_ConditionalGating tells it from the code.
avaliarCondicionalSempre(condicional, valores) ==
    LET parts == Split(condicional)
    IN  IF Len(parts) < 2 \/ parts[1] = "" \/ parts[2] = ""
        THEN [erro |-> "InvalidConditionalError", valor |-> FALSE]
        ELSE [erro |-> "", valor |-> TRUE]

\* [erro, valor]: erro is "" or the error thrown; valor is the boolean returned.
\* const [campoId, valorEsperado] = condicional.split("="): a missing element
\* is undefined, which is falsy like "".
avaliarCondicional(condicional, valores) ==
    LET parts == Split(condicional)
        campoId == IF Len(parts) >= 1 THEN parts[1] ELSE ""
        valorEsperado == IF Len(parts) >= 2 THEN parts[2] ELSE ""
    IN  IF campoId = "" \/ valorEsperado = ""
        THEN [erro |-> "InvalidConditionalError", valor |-> FALSE]
        ELSE [erro |-> "", valor |-> Get(valores, campoId) = Str(valorEsperado)]

-----------------------------------------------------------------------------
(* Calculator.calculate (mathjs evaluate) *)

\* The operands of a formula are field ids, or the literal "1".
IsLiteral(tok) == tok = "1"

\* mathjs converts a boolean operand to 0 or 1; a string that is no number, and
\* an array holding one, cannot be converted.
Addable(v) == v.k \in {"number", "boolean"}

RECURSIVE SumN(_, _)
SumN(formula, scope) ==
    IF formula = <<>> THEN 0
    ELSE (IF IsLiteral(Head(formula)) THEN 1 ELSE scope[Head(formula)].n)
         + SumN(Tail(formula), scope)

RECURSIVE CountHalves(_, _)
CountHalves(formula, scope) ==
    IF formula = <<>> THEN 0
    ELSE (IF ~IsLiteral(Head(formula)) /\ scope[Head(formula)].s = ".5" THEN 1 ELSE 0)
         + CountHalves(Tail(formula), scope)

\* evaluate(formula, scope): [erro, valor]. A symbol outside the scope is
\* undefined and makes evaluate throw.
evaluate(formula, scope) ==
    IF \E i \in DOMAIN formula :
          ~IsLiteral(formula[i])
          /\ (formula[i] \notin DOMAIN scope \/ ~Addable(scope[formula[i]]))
    THEN [erro |-> "FormulaEvaluationError", valor |-> Undefined]
    ELSE LET h == CountHalves(formula, scope)
             whole == SumN(formula, scope) + (h \div 2)
         IN  [erro |-> "",
              valor |-> IF h % 2 = 1 THEN Half(whole) ELSE Num(whole)]

\* Number(result.toFixed(precisao)): x + 0.5 rounds up to x + 1 with no digits
\* kept, and is unchanged with one or more.
toFixed(result, precisao) ==
    IF result.s = ".5" /\ precisao = 0 THEN Num(result.n + 1) ELSE result

\* A variant of missingDeps that stops at the first missing dependency;
\* C20_MissingDependencies tells it from the code.
missingDepsPrimeira(dependencias, values) ==
    LET all == SelectSeq(dependencias, LAMBDA dep : dep \notin DOMAIN values)
    IN  IF all = <<>> THEN <<>> ELSE <<Head(all)>>

\* The dependencies that are no key of values, in declared order.
missingDeps(dependencias, values) ==
    SelectSeq(dependencias, LAMBDA dep : dep \notin DOMAIN values)

\* Calculator.calculate: [erro, faltando, valor].
calculate(field, values) ==
    IF field.formula = <<>> \/ ~field.dependencias.def
    THEN [erro |-> "CalculatedFieldDefinitionError", faltando |-> <<>>, valor |-> Undefined]
    ELSE LET deps == field.dependencias.v
             missing == missingDeps(deps, values)
         IN  IF Len(missing) > 0
             THEN [erro |-> "MissingDependencyError", faltando |-> missing,
                   valor |-> Undefined]
             ELSE LET scope == [dep \in Range(deps) |-> values[dep]]
                      r == evaluate(field.formula, scope)
                  IN  IF r.erro # ""
                      THEN [erro |-> r.erro, faltando |-> <<>>, valor |-> Undefined]
                      ELSE [erro |-> "", faltando |-> <<>>,
                            valor |-> IF field.precisao # Absent /\ r.valor.k = "number"
                                      THEN toFixed(r.valor, field.precisao)
                                      ELSE r.valor]

-----------------------------------------------------------------------------
(* FormService.verificarDependenciasCirculares *)

\* The keys of the Map built by campos.forEach(grafo.set): the ids in the
\* order of their first occurrence.
RECURSIVE grafoKeys(_)
grafoKeys(campos) ==
    IF campos = <<>> THEN <<>>
    ELSE LET rest == grafoKeys(SubSeq(campos, 1, Len(campos) - 1))
             id == campos[Len(campos)].id
         IN  IF id \in Range(rest) THEN rest ELSE Append(rest, id)

\* grafo.get(no) || []: the dependencias of the last field with this id.
grafoGet(campos, no) ==
    IF \E i \in DOMAIN campos : campos[i].id = no
    THEN LET last == CHOOSE i \in DOMAIN campos :
                        /\ campos[i].id = no
                        /\ \A j \in DOMAIN campos : campos[j].id = no => j <= i
         IN  IF campos[last].dependencias.def THEN campos[last].dependencias.v ELSE <<>>
    ELSE <<>>

\* detectarCiclo(no) with the state of the traversal passed along:
\* st = [visitados, pilhaRecursao, erro], erro the field id of the Error
\* thrown, or "" while none is.
RECURSIVE detectarCiclo(_, _, _)
RECURSIVE detectarVizinhos(_, _, _, _)
detectarVizinhos(campos, vizinhos, i, st) ==
    IF st.erro # "" \/ i > Len(vizinhos) THEN st
    ELSE LET vizinho == vizinhos[i]
         IN  IF vizinho \notin st.visitados
             THEN detectarVizinhos(campos, vizinhos, i + 1,
                                   detectarCiclo(campos, vizinho, st))
             ELSE IF vizinho \in st.pilhaRecursao
             THEN [st EXCEPT !.erro = vizinho]
             ELSE detectarVizinhos(campos, vizinhos, i + 1, st)

detectarCiclo(campos, no, st) ==
    LET entered == [st EXCEPT !.visitados = @ \cup {no}, !.pilhaRecursao = @ \cup {no}]
        after == detectarVizinhos(campos, grafoGet(campos, no), 1, entered)
    IN  IF after.erro # "" THEN after
        ELSE [after EXCEPT !.pilhaRecursao = @ \ {no}]

RECURSIVE detectarRaizes(_, _, _, _)
detectarRaizes(campos, keys, i, st) ==
    IF st.erro # "" \/ i > Len(keys) THEN st
    ELSE IF keys[i] \in st.visitados THEN detectarRaizes(campos, keys, i + 1, st)
    ELSE detectarRaizes(campos, keys, i + 1, detectarCiclo(campos, keys[i], st))

\* A variant of the check that starts the traversal at the first key only;
\* C29_InlineAgreesWithGraph tells it from the code.
verificarPrimeiraRaiz(campos) ==
    IF campos = <<>> THEN ""
    ELSE detectarCiclo(campos, grafoKeys(campos)[1],
                       [visitados |-> {}, pilhaRecursao |-> {}, erro |-> ""]).erro

\* The field id named in the Error thrown, or "" when none is thrown.
verificarDependenciasCirculares(campos) ==
    detectarRaizes(campos, grafoKeys(campos), 1,
                   [visitados |-> {}, pilhaRecursao |-> {}, erro |-> ""]).erro

-----------------------------------------------------------------------------
(* Graph (dependency graph component) *)

IndexOf(seq, x) == CHOOSE i \in DOMAIN seq : seq[i] = x /\ \A j \in 1..(i - 1) : seq[j] # x

\* detectCycleUtil with visited and recursionStack passed along:
\* st = [visited, recursionStack, cycle]; recursionStack is a Set, kept in
\* insertion order; cycle is <<>> for null.
RECURSIVE detectCycleUtil(_, _, _)
RECURSIVE detectCycleNeighbors(_, _, _, _)
detectCycleNeighbors(g, neighbors, i, st) ==
    IF st.cycle # <<>> \/ i > Len(neighbors) THEN st
    ELSE detectCycleNeighbors(g, neighbors, i + 1, detectCycleUtil(g, neighbors[i], st))

detectCycleUtil(g, node, st) ==
    IF node \in Range(st.recursionStack)
    THEN LET cycleStartIndex == IndexOf(st.recursionStack, node)
         IN  [st EXCEPT !.cycle =
                 Append(SubSeq(st.recursionStack, cycleStartIndex, Len(st.recursionStack)),
                        node)]
    ELSE IF node \in st.visited THEN st
    ELSE LET entered == [st EXCEPT !.visited = @ \cup {node},
                                   !.recursionStack = Append(@, node)]
             neighbors == IF node \in DOMAIN g.adj THEN g.adj[node] ELSE <<>>
             after == detectCycleNeighbors(g, neighbors, 1, entered)
         IN  IF after.cycle # <<>> THEN after
             ELSE [after EXCEPT !.recursionStack = SelectSeq(@, LAMBDA x : x # node)]

RECURSIVE hasCycleFrom(_, _, _)
hasCycleFrom(g, i, st) ==
    IF st.cycle # <<>> \/ i > Len(g.keys) THEN st
    ELSE hasCycleFrom(g, i + 1, detectCycleUtil(g, g.keys[i], st))

\* A variant of hasCycle that starts the traversal at the first node only;
\* C7_HasCycle tells it from the code.
hasCycleFirstRoot(g) ==
    IF g.keys = <<>> THEN <<>>
    ELSE detectCycleUtil(g, g.keys[1],
                         [visited |-> {}, recursionStack |-> <<>>, cycle |-> <<>>]).cycle

\* Graph.hasCycle: the cycle found, or <<>> for null.
hasCycle(g) ==
    hasCycleFrom(g, 1, [visited |-> {}, recursionStack |-> <<>>, cycle |-> <<>>]).cycle

EmptyGraph == [keys |-> <<>>, adj |-> <<>>]

\* graph.addNode(node)
addNode(g, node) ==
    IF node \in Range(g.keys) THEN g
    ELSE [keys |-> Append(g.keys, node),
          adj |-> [x \in Range(g.keys) \cup {node} |->
                      IF x = node THEN <<>> ELSE g.adj[x]]]

\* graph.addEdge(source, destination): [erro, g]
addEdge(g, source, destination) ==
    IF source \notin Range(g.keys) THEN [erro |-> "UnknownNodeError", g |-> g]
    ELSE IF destination \notin Range(g.keys) THEN [erro |-> "UnknownNodeError", g |-> g]
    ELSE [erro |-> "",
          g |-> [g EXCEPT !.adj[source] = Append(@, destination)]]

-----------------------------------------------------------------------------
(* FormRepositoryPrisma: the tables and the writes *)

\* campos is stored as JSONB: JSON.stringify turns a RegExp into {}, so a
\* stored regex rule is no RegExp any more.
toJSON(campos) == [i \in DOMAIN campos |-> [campos[i] EXCEPT !.regex = ""]]

\* prisma.form.create: a new row of table Form (the caller checked the key).
create(table, id, form) ==
    [x \in DOMAIN table \cup {id} |->
        IF x = id
        THEN [campos |-> toJSON(form.campos.v),
              schema_version |-> form.schema_version,
              is_ativo |-> form.is_ativo.v,
              data_criacao |-> form.data_criacao,
              protegido |-> form.protegido.v,
              data_remocao |-> Absent,
              usuario_remocao |-> ""]
        ELSE table[x]]

\* A variant of updateSchema that also resets data_criacao and protegido;
\* C17_UpdatePreserves tells it from the code.
updateSchemaReinicia(table, id, form) ==
    [table EXCEPT ![id] =
        [@ EXCEPT !.schema_version = form.schema_version,
                  !.campos = IF form.campos.def THEN toJSON(form.campos.v) ELSE @,
                  !.data_criacao = now, !.protegido = FALSE]]

\* prisma.form.update of updateSchema: writes nome, descricao, schema_version
\* and campos only; an undefined campos leaves the column as it is.
updateSchema(table, id, form) ==
    [table EXCEPT ![id] =
        [@ EXCEPT !.schema_version = form.schema_version,
                  !.campos = IF form.campos.def THEN toJSON(form.campos.v) ELSE @]]

\* A variant of softDelete that stamps the removal and leaves is_ativo as it
\* is; C11_DeletableAfterUpdate tells it from the code.
softDeleteSemDesativar(table, id, user) ==
    [table EXCEPT ![id] = [@ EXCEPT !.data_remocao = now, !.usuario_remocao = user]]

\* prisma.form.update of softDelete
softDelete(table, id, user) ==
    [table EXCEPT ![id] =
        [@ EXCEPT !.is_ativo = FALSE, !.data_remocao = now, !.usuario_remocao = user]]

\* A variant of idTaken for a table Response without its primary key;
\* C12_DistinctResponseIds tells it from the code.
idTakenNever(table, id) == FALSE

\* CONSTRAINT "Response_pkey" PRIMARY KEY ("id"): prisma.response.create
\* rejects a row whose id a stored row has.
idTaken(table, id) == \E r \in table : r.id = id

\* A variant of saveResponse that keeps one response per form;
\* C28_WriteOnce tells it from the code.
saveResponseSubstitui(table, formId, response) ==
    {r \in table : r.formId # formId}
    \cup {[id |-> response.id, formId |-> formId,
            schema_version |-> response.schema_version,
            respostas |-> response.respostas,
            calculados |-> response.calculados,
            criado_em |-> response.criado_em,
            is_ativo |-> response.is_ativo,
            data_remocao |-> Absent, usuario_remocao |-> ""]}

\* prisma.response.create
saveResponse(table, formId, response) ==
    table \cup {[id |-> response.id, formId |-> formId,
                 schema_version |-> response.schema_version,
                 respostas |-> response.respostas,
                 calculados |-> response.calculados,
                 criado_em |-> response.criado_em,
                 is_ativo |-> response.is_ativo,
                 data_remocao |-> Absent, usuario_remocao |-> ""]}

\* prisma.response.findUnique({id, formId}): the rows found (none or one)
findResponseById(table, formId, responseId) ==
    {r \in table : r.id = responseId /\ r.formId = formId}

\* A variant of softDeleteResponse that matches on the form alone;
\* C16_ResponseRemoval tells it from the code.
softDeleteResponseDoFormulario(table, formId, responseId, user) ==
    {IF r.formId = formId
     THEN [r EXCEPT !.is_ativo = FALSE, !.data_remocao = now, !.usuario_remocao = user]
     ELSE r : r \in table}

\* prisma.response.update of softDeleteResponse
softDeleteResponse(table, formId, responseId, user) ==
    {IF r.id = responseId /\ r.formId = formId
     THEN [r EXCEPT !.is_ativo = FALSE, !.data_remocao = now, !.usuario_remocao = user]
     ELSE r : r \in table}

-----------------------------------------------------------------------------
(* FormService *)

\* A Form or Partial<Form> argument: the properties the service reads.
FormInput(campos) ==
    [campos |-> campos, schema_version |-> Absent, is_ativo |-> None(FALSE),
     protegido |-> None(FALSE), data_criacao |-> Absent]

NoCall ==
    [op |-> "none", id |-> "", form |-> FormInput(None(<<>>)), respostas |-> <<>>,
     schema_version |-> Absent, usuario |-> "", respostaId |-> Absent,
     erro |-> "", detalhe |-> "", faltando |-> <<>>]

\* The name of the error a rejection of FieldValidator.validate is.
ErrorKind(msg) ==
    CASE msg = "Unsupported field type" -> "UnsupportedFieldKindError"
      [] msg = "TypeError" -> "TypeError"
      [] OTHER -> "ValidationError"

\* The call throws: nothing is written and nothing is logged.
Throw(call, erro, detalhe) ==
    /\ lastOp' = [call EXCEPT !.erro = erro, !.detalhe = detalhe]
    /\ UNCHANGED <<forms, responses, audit, now, adjacencyList, cycle, pending>>

\* A variant of Log that writes the entry twice; C21_OneEventPerSuccess tells it
\* from the code.
LogDuplo(acao, id, usuario) ==
    audit \o <<[acao |-> acao, id |-> id, usuario |-> usuario],
               [acao |-> acao, id |-> id, usuario |-> usuario]>>

Log(acao, id, usuario) == Append(audit, [acao |-> acao, id |-> id, usuario |-> usuario])

\* A variant of formularioInativo that lets every stored form through;
\* C14_GuardsBeforeValidation tells it from the code.
formularioInativoNunca(formulario) == FALSE

\* if (!formulario.is_ativo) throw new Error("Formulário inativo")
formularioInativo(formulario) == ~formulario.is_ativo

\* A variant of novoFormulario that lets the caller's schema_version and
\* is_ativo through; C1_CreateDefaults tells it from the code.
novoFormularioDoChamador(form) ==
    [form EXCEPT !.schema_version = IF @ = Absent THEN 1 ELSE @,
                 !.is_ativo = IF @.def THEN @ ELSE Some(TRUE),
                 !.data_criacao = now,
                 !.protegido = IF form.protegido.def THEN form.protegido ELSE Some(FALSE)]

\* The object criarFormulario hands to the repository: the caller's form
\* with schema_version, is_ativo, data_criacao and protegido set over it.
novoFormulario(form) ==
    [form EXCEPT !.schema_version = 1,
                 !.is_ativo = Some(TRUE),
                 !.data_criacao = now,
                 !.protegido = IF form.protegido.def THEN form.protegido ELSE Some(FALSE)]

criarFormulario(id, form) ==
    LET call == [NoCall EXCEPT !.op = "criarFormulario", !.id = id, !.form = form]
        v == validarCampos(form.campos.v)
        ciclo == verificarDependenciasCirculares(form.campos.v)
    IN  IF v # "ok" THEN Throw(call, ErrorKind(v), v)
        ELSE IF ciclo # "" THEN Throw(call, "CircularDependencyError", ciclo)
        ELSE IF id \in DOMAIN forms THEN Throw(call, "PersistenceError", "unique constraint")
        ELSE /\ forms' = create(forms, id, novoFormulario(form))
             /\ audit' = Log("criacao_formulario", id, "system")
             /\ lastOp' = call
             /\ UNCHANGED <<responses, now, adjacencyList, cycle, pending>>

\* A variant of novaVersaoSchema that persists the stored number again;
\* C2_VersionCountsUpdates tells it from the code.
versaoSchemaMantida(formularioExistente) == formularioExistente.schema_version

novaVersaoSchema(formularioExistente) == formularioExistente.schema_version + 1

atualizarSchemaFormulario(id, formularioAtualizado) ==
    LET call == [NoCall EXCEPT !.op = "atualizarSchemaFormulario", !.id = id,
                               !.form = formularioAtualizado]
        campos == IF formularioAtualizado.campos.def
                  THEN formularioAtualizado.campos.v ELSE <<>>
        v == validarCampos(campos)
        ciclo == verificarDependenciasCirculares(campos)
    IN  IF id \notin DOMAIN forms THEN Throw(call, "NotFoundError", "")
        ELSE IF formularioInativo(forms[id]) THEN Throw(call, "InactiveFormError", "")
        ELSE IF v # "ok" THEN Throw(call, ErrorKind(v), v)
        ELSE IF ciclo # "" THEN Throw(call, "CircularDependencyError", ciclo)
        ELSE LET formularioExistente == forms[id]
             IN  \* if (schema_version && schema_version <= existente): 0 and
                 \* undefined are falsy
                 IF /\ formularioAtualizado.schema_version # Absent
                    /\ formularioAtualizado.schema_version # 0
                    /\ formularioAtualizado.schema_version <= formularioExistente.schema_version
                 THEN Throw(call, "SchemaVersionConflictError", "")
                 ELSE /\ forms' = updateSchema(forms, id,
                              [formularioAtualizado EXCEPT
                                  !.schema_version =
                                      novaVersaoSchema(formularioExistente),
                                  !.data_criacao = formularioExistente.data_criacao,
                                  !.is_ativo = Some(formularioExistente.is_ativo),
                                  !.protegido = Some(formularioExistente.protegido)])
                      /\ audit' = Log("atualizacao_schema", id, "system")
                      /\ lastOp' = call
                      /\ UNCHANGED <<responses, now, adjacencyList, cycle, pending>>

\* The first loop of enviarResposta: [erro, detalhe] of the first throw, erro ""
\* when every field passes.
RECURSIVE validarRespostas(_, _)
validarRespostas(campos, respostas) ==
    IF campos = <<>> THEN [erro |-> "", detalhe |-> ""]
    ELSE LET campo == Head(campos)
             cond == avaliarCondicional(campo.condicional, respostas)
             v == validate(Get(respostas, campo.id), campo)
         IN  IF campo.tipo = "calculated" THEN validarRespostas(Tail(campos), respostas)
             ELSE IF campo.condicional # <<>> /\ cond.erro # ""
                  THEN [erro |-> cond.erro, detalhe |-> campo.id]
             ELSE IF campo.condicional # <<>> /\ ~cond.valor
                  THEN validarRespostas(Tail(campos), respostas)
             ELSE IF v # "ok" THEN [erro |-> ErrorKind(v), detalhe |-> v]
             ELSE validarRespostas(Tail(campos), respostas)

\* The second loop of enviarResposta over the calculated fields in declared
\* order, each computed from respostas: [erro, detalhe, faltando, calculados].
RECURSIVE calcularCampos(_, _, _)
calcularCampos(campos, respostas, camposCalculados) ==
    IF campos = <<>>
    THEN [erro |-> "", detalhe |-> "", faltando |-> <<>>, calculados |-> camposCalculados]
    ELSE LET campo == Head(campos)
             r == calculate(campo, respostas)
         IN  IF r.erro # ""
             THEN [erro |-> r.erro, detalhe |-> campo.id, faltando |-> r.faltando,
                   calculados |-> camposCalculados]
             ELSE calcularCampos(Tail(campos), respostas,
                    [x \in DOMAIN camposCalculados \cup {campo.id} |->
                        IF x = campo.id THEN r.valor ELSE camposCalculados[x]])

enviarResposta(formId, respostas, schema_version) ==
    LET call == [NoCall EXCEPT !.op = "enviarResposta", !.id = formId,
                               !.respostas = respostas,
                               !.schema_version = schema_version]
    IN  IF formId \notin DOMAIN forms THEN Throw(call, "NotFoundError", "")
        ELSE IF formularioInativo(forms[formId]) THEN Throw(call, "InactiveFormError", "")
        ELSE LET formulario == forms[formId]
                 \* schema_version || formulario.schema_version: 0 is falsy
                 versaoAlvo == IF schema_version # Absent /\ schema_version # 0
                               THEN schema_version ELSE formulario.schema_version
                 v == validarRespostas(formulario.campos, respostas)
                 c == calcularCampos(
                        SelectSeq(formulario.campos, LAMBDA f : f.tipo = "calculated"),
                        respostas, <<>>)
                 id == now                  \* `resposta_${Date.now()}`
             IN  IF versaoAlvo # formulario.schema_version
                 THEN Throw(call, "SchemaVersionMismatchError", "")
                 ELSE IF v.erro # "" THEN Throw(call, v.erro, v.detalhe)
                 ELSE IF c.erro # ""
                      THEN /\ lastOp' = [call EXCEPT !.erro = c.erro, !.detalhe = c.detalhe,
                                                     !.faltando = c.faltando]
                           /\ UNCHANGED <<forms, responses, audit, now, adjacencyList, cycle, pending>>
                 ELSE IF idTaken(responses, id)
                      THEN Throw(call, "PersistenceError", "unique constraint")
                 ELSE /\ responses' = saveResponse(responses, formId,
                              [id |-> id, respostas |-> respostas,
                               calculados |-> c.calculados,
                               schema_version |-> versaoAlvo,
                               criado_em |-> now, is_ativo |-> TRUE])
                      /\ audit' = Log("submissao_resposta", formId, "system")
                      /\ lastOp' = [call EXCEPT !.respostaId = id]
                      /\ UNCHANGED <<forms, now, adjacencyList, cycle, pending>>

desativarFormulario(id, usuario) ==
    LET call == [NoCall EXCEPT !.op = "desativarFormulario", !.id = id,
                               !.usuario = usuario]
    IN  IF id \notin DOMAIN forms THEN Throw(call, "NotFoundError", "")
        ELSE IF formularioInativo(forms[id]) THEN Throw(call, "InactiveFormError", "")
        ELSE /\ forms' = softDelete(forms, id, usuario)
             /\ audit' = Log("exclusao_logica_formulario", id, usuario)
             /\ lastOp' = call
             /\ UNCHANGED <<responses, now, adjacencyList, cycle, pending>>

desativarResposta(formId, respostaId, usuario) ==
    LET call == [NoCall EXCEPT !.op = "desativarResposta", !.id = formId,
                               !.respostaId = respostaId, !.usuario = usuario]
        found == findResponseById(responses, formId, respostaId)
    IN  IF found = {} THEN Throw(call, "NotFoundError", "")
        ELSE IF \E r \in found : ~r.is_ativo THEN Throw(call, "InactiveResponseError", "")
        ELSE /\ responses' = softDeleteResponse(responses, formId, respostaId, usuario)
             /\ audit' = Log("exclusao_logica_resposta", formId, usuario)
             /\ lastOp' = call
             /\ UNCHANGED <<forms, now, adjacencyList, cycle, pending>>

-----------------------------------------------------------------------------
(* FormService, call by call between awaits: a call reads the form
   (await findById), runs its checks on what it read, and is suspended at the
   await of its write; other calls run meanwhile *)

Suspend(p, rec) == [q \in DOMAIN pending \cup {p} |-> IF q = p THEN rec ELSE pending[q]]
Resume(p) == [q \in DOMAIN pending \ {p} |-> pending[q]]

\* atualizarSchemaFormulario up to the await of updateSchema (lines 46-61)
lerAtualizacao(p, id, formularioAtualizado) ==
    LET call == [NoCall EXCEPT !.op = "atualizarSchemaFormulario", !.id = id,
                               !.form = formularioAtualizado]
        campos == IF formularioAtualizado.campos.def
                  THEN formularioAtualizado.campos.v ELSE <<>>
        v == validarCampos(campos)
        ciclo == verificarDependenciasCirculares(campos)
    IN  IF id \notin DOMAIN forms THEN Throw(call, "NotFoundError", "")
        ELSE IF formularioInativo(forms[id]) THEN Throw(call, "InactiveFormError", "")
        ELSE IF v # "ok" THEN Throw(call, ErrorKind(v), v)
        ELSE IF ciclo # "" THEN Throw(call, "CircularDependencyError", ciclo)
        ELSE IF /\ formularioAtualizado.schema_version # Absent
                /\ formularioAtualizado.schema_version # 0
                /\ formularioAtualizado.schema_version <= forms[id].schema_version
             THEN Throw(call, "SchemaVersionConflictError", "")
        ELSE /\ pending' = Suspend(p, [call |-> call, formulario |-> forms[id],
                                       calculados |-> <<>>])
             /\ UNCHANGED <<forms, responses, audit, now, lastOp, adjacencyList, cycle>>

\* atualizarSchemaFormulario from the await of updateSchema on (lines 63-80):
\* the row is written from the form the call read.
gravarAtualizacao(p) ==
    LET call == pending[p].call
        formularioExistente == pending[p].formulario
    IN  /\ call.op = "atualizarSchemaFormulario"
        /\ forms' = updateSchema(forms, call.id,
                        [call.form EXCEPT
                            !.schema_version = novaVersaoSchema(formularioExistente),
                            !.data_criacao = formularioExistente.data_criacao,
                            !.is_ativo = Some(formularioExistente.is_ativo),
                            !.protegido = Some(formularioExistente.protegido)])
        /\ audit' = Log("atualizacao_schema", call.id, "system")
        /\ lastOp' = call
        /\ pending' = Resume(p)
        /\ UNCHANGED <<responses, now, adjacencyList, cycle>>

\* enviarResposta up to the await of saveResponse (lines 88-116)
lerEnvio(p, formId, respostas, schema_version) ==
    LET call == [NoCall EXCEPT !.op = "enviarResposta", !.id = formId,
                               !.respostas = respostas,
                               !.schema_version = schema_version]
    IN  IF formId \notin DOMAIN forms THEN Throw(call, "NotFoundError", "")
        ELSE IF formularioInativo(forms[formId]) THEN Throw(call, "InactiveFormError", "")
        ELSE LET formulario == forms[formId]
                 versaoAlvo == IF schema_version # Absent /\ schema_version # 0
                               THEN schema_version ELSE formulario.schema_version
                 v == validarRespostas(formulario.campos, respostas)
                 c == calcularCampos(
                        SelectSeq(formulario.campos, LAMBDA f : f.tipo = "calculated"),
                        respostas, <<>>)
             IN  IF versaoAlvo # formulario.schema_version
                 THEN Throw(call, "SchemaVersionMismatchError", "")
                 ELSE IF v.erro # "" THEN Throw(call, v.erro, v.detalhe)
                 ELSE IF c.erro # ""
                      THEN /\ lastOp' = [call EXCEPT !.erro = c.erro, !.detalhe = c.detalhe,
                                                     !.faltando = c.faltando]
                           /\ UNCHANGED <<forms, responses, audit, now, adjacencyList, cycle, pending>>
                 ELSE /\ pending' = Suspend(p, [call |-> [call EXCEPT !.schema_version = versaoAlvo],
                                                formulario |-> formulario,
                                                calculados |-> c.calculados])
                      /\ UNCHANGED <<forms, responses, audit, now, lastOp, adjacencyList, cycle>>

\* enviarResposta from the await of saveResponse on (lines 118-136)
gravarEnvio(p) ==
    LET call == pending[p].call
        id == now                      \* `resposta_${Date.now()}`
    IN  /\ call.op = "enviarResposta"
        /\ pending' = Resume(p)
        /\ IF idTaken(responses, id)
           THEN /\ lastOp' = [call EXCEPT !.erro = "PersistenceError",
                                          !.detalhe = "unique constraint"]
                /\ UNCHANGED <<forms, responses, audit, now, adjacencyList, cycle>>
           ELSE /\ responses' = saveResponse(responses, call.id,
                        [id |-> id, respostas |-> call.respostas,
                         calculados |-> pending[p].calculados,
                         schema_version |-> call.schema_version,
                         criado_em |-> now, is_ativo |-> TRUE])
                /\ audit' = Log("submissao_resposta", call.id, "system")
                /\ lastOp' = [call EXCEPT !.respostaId = id]
                /\ UNCHANGED <<forms, now, adjacencyList, cycle>>

\* Time passes between two calls.
Tick ==
    /\ now < MaxTime
    /\ now' = now + 1
    /\ UNCHANGED <<forms, responses, audit, lastOp, adjacencyList, cycle, pending>>

-----------------------------------------------------------------------------
(* The calls, with the arguments drawn from the sets a specification gives *)

CriarFormulario(ids, inputs) ==
    \E id \in ids, form \in inputs : criarFormulario(id, form)

\* Explored while the stored version is below MaxVersion.
AtualizarSchemaFormulario(ids, inputs) ==
    \E id \in ids, form \in inputs :
        /\ id \in DOMAIN forms => forms[id].schema_version < MaxVersion
        /\ atualizarSchemaFormulario(id, form)

\* Explored while fewer than MaxResponses responses are stored.
EnviarResposta(ids, inputs) ==
    \E id \in ids, in \in inputs :
        /\ Cardinality(responses) < MaxResponses
        /\ enviarResposta(id, in.respostas, in.schema_version)

DesativarFormulario(ids, users) ==
    \E id \in ids, u \in users : desativarFormulario(id, u)

DesativarResposta(ids, users) ==
    \E id \in ids, rid \in 0..MaxTime, u \in users : desativarResposta(id, rid, u)

InitEmpty ==
    /\ forms = <<>>
    /\ responses = {}
    /\ audit = <<>>
    /\ now = 0
    /\ lastOp = NoCall
    /\ adjacencyList = EmptyGraph
    /\ cycle = <<>>
    /\ pending = <<>>

-----------------------------------------------------------------------------
(* The fields and forms the specifications draw from *)

Users == {"ana", "bob"}
Versions == {Absent} \cup 0..(MaxVersion + 1)

Peso == Field("peso", "number")
Imc ==
    [Field("imc", "calculated") EXCEPT
        !.formula = <<"peso", "peso">>, !.dependencias = Some(<<"peso">>)]
NomeObrigatorio == [Field("nome", "text") EXCEPT !.obrigatorio = TRUE]
CicloA == [Field("a", "text") EXCEPT !.dependencias = Some(<<"b">>)]
CicloB == [Field("b", "text") EXCEPT !.dependencias = Some(<<"a">>)]

\* A condition with no "=": it cannot be evaluated.
SemIgual == [Field("obs", "text") EXCEPT !.condicional = <<"peso">>]

CamposCiclo == <<CicloA, CicloB>>
CamposInvalidos == <<NomeObrigatorio>>

\* The attributes a caller may set that the service is to overwrite.
Overrides == {
    [schema_version |-> Absent, is_ativo |-> None(FALSE), protegido |-> Some(TRUE)],
    [schema_version |-> 0, is_ativo |-> Some(FALSE), protegido |-> Some(FALSE)],
    [schema_version |-> MaxVersion + 1, is_ativo |-> Some(FALSE), protegido |-> Some(TRUE)] }

WithOverrides(form, o) ==
    [form EXCEPT !.schema_version = o.schema_version, !.is_ativo = o.is_ativo,
                 !.protegido = o.protegido]

-----------------------------------------------------------------------------
(* SpecForms: the life of the forms, from an empty database *)

FormIds == {"f1"}               \* the forms that are created
Ids == FormIds \cup {"f2"}      \* and an id no form has

CreateInputs ==
    {FormInput(Some(c)) : c \in {<<Peso, Imc>>, CamposCiclo, CamposInvalidos}}
    \cup {WithOverrides(FormInput(Some(<<Peso, Imc>>)), o) : o \in Overrides}

UpdateInputs ==
    {FormInput(c) : c \in {None(<<>>), Some(CamposCiclo), Some(CamposInvalidos)}}
    \cup {[FormInput(Some(<<Peso>>)) EXCEPT !.schema_version = v] : v \in Versions}
    \cup {[FormInput(Some(<<Peso>>)) EXCEPT !.is_ativo = Some(FALSE),
                                            !.protegido = Some(p)] : p \in BOOLEAN}

NextForms ==
    \/ CriarFormulario(FormIds, CreateInputs)
    \/ AtualizarSchemaFormulario(Ids, UpdateInputs)
    \/ DesativarFormulario(Ids, Users)
    \/ Tick

SpecForms == InitEmpty /\ [][NextForms]_vars

-----------------------------------------------------------------------------
(* Spec: forms and their responses, from an empty database *)

SpecCreateInputs ==
    {FormInput(Some(c)) : c \in {<<Peso, Imc>>, CamposCiclo, CamposInvalidos}}

SpecUpdateInputs ==
    {FormInput(Some(c)) : c \in {<<Peso>>, <<Peso, SemIgual>>, CamposCiclo, CamposInvalidos}}
    \cup {[FormInput(Some(<<Peso>>)) EXCEPT !.schema_version = 1]}

\* What is submitted, and the version cited with it.
SpecSubmitInputs ==
    {[respostas |-> [x \in {"peso"} |-> Num(2)], schema_version |-> v] : v \in Versions}
    \cup {[respostas |-> [x \in {"peso"} |-> Str("dois")], schema_version |-> Absent],
          [respostas |-> <<>>, schema_version |-> Absent]}

Next ==
    \/ CriarFormulario(FormIds, SpecCreateInputs)
    \/ AtualizarSchemaFormulario(FormIds, SpecUpdateInputs)
    \/ EnviarResposta(Ids, SpecSubmitInputs)
    \/ DesativarFormulario(FormIds, {"ana"})
    \/ Tick

Spec == InitEmpty /\ [][Next]_vars

-----------------------------------------------------------------------------
(* SpecSubmit: responses to a form that the seed script inserted *)

Sexo ==
    [Field("sexo", "select") EXCEPT
        !.obrigatorio = TRUE, !.opcoes = <<"feminino", "masculino">>]
Gravidez ==
    [Field("gravidez", "boolean") EXCEPT
        !.obrigatorio = TRUE, !.condicional = <<"sexo", "=", "feminino">>]
Classificacao ==
    [Field("classificacao", "calculated") EXCEPT
        !.formula = <<"imc", "1">>, !.dependencias = Some(<<"imc">>)]

CamposGravidez == <<Peso, Sexo, Gravidez, Imc>>
CamposCadeia == <<Peso, Imc, Classificacao>>
CamposCadeiaInvertida == <<Classificacao, Imc, Peso>>
SeedCampos == {CamposGravidez, CamposCadeia, CamposCadeiaInvertida}

\* A row as prisma.form.create of the seed script writes it.
SeedForm(campos) ==
    [campos |-> toJSON(campos), schema_version |-> 1, is_ativo |-> TRUE,
     data_criacao |-> 0, protegido |-> FALSE, data_remocao |-> Absent,
     usuario_remocao |-> ""]

InitSeed ==
    /\ \E campos \in SeedCampos : forms = [id \in FormIds |-> SeedForm(campos)]
    /\ responses = {}
    /\ audit = <<>>
    /\ now = 0
    /\ lastOp = NoCall
    /\ adjacencyList = EmptyGraph
    /\ cycle = <<>>
    /\ pending = <<>>

Respostas(sexo, gravidez, peso, imc) ==
    [x \in (IF sexo = "" THEN {} ELSE {"sexo"})
           \cup (IF gravidez THEN {"gravidez"} ELSE {})
           \cup (IF peso THEN {"peso"} ELSE {})
           \cup (IF imc THEN {"imc"} ELSE {}) |->
        CASE x = "sexo" -> Str(sexo)
          [] x = "gravidez" -> Bool(TRUE)
          [] x = "peso" -> Num(2)
          [] x = "imc" -> Num(7)]

SeedSubmitInputs ==
    {[respostas |-> r, schema_version |-> Absent] :
        r \in {Respostas("masculino", FALSE, TRUE, FALSE),
               Respostas("feminino", FALSE, TRUE, FALSE),
               Respostas("feminino", TRUE, TRUE, FALSE),
               Respostas("", FALSE, TRUE, FALSE),
               Respostas("", FALSE, TRUE, TRUE),
               Respostas("", FALSE, FALSE, FALSE)}}
    \cup {[respostas |-> Respostas("masculino", FALSE, TRUE, FALSE), schema_version |-> v] :
             v \in {0, 1, 2}}

NextSubmit ==
    \/ EnviarResposta(Ids, SeedSubmitInputs)
    \/ DesativarResposta(Ids, {"ana"})
    \/ Tick

SpecSubmit == InitSeed /\ [][NextSubmit]_vars

-----------------------------------------------------------------------------
(* SpecCycle: one Create or UpdateSchema with any field list of a family *)

CycleIds == {"a", "b", "c"}
CycleDeps ==
    {None(<<>>), Some(<<>>)} \cup {Some(<<x>>) : x \in CycleIds}
    \cup {Some(<<"a", "b">>), Some(<<"c", "c">>)}
CycleFields == {[Field(id, "text") EXCEPT !.dependencias = d] : id \in CycleIds, d \in CycleDeps}
CycleLists == UNION {[1..n -> CycleFields] : n \in 0..MaxCampos}
CycleInputs == {FormInput(Some(campos)) : campos \in CycleLists} \cup {FormInput(None(<<>>))}

\* The database is empty, or holds the form f1.
InitCycle ==
    /\ forms \in {<<>>, [id \in FormIds |-> SeedForm(<<Peso>>)]}
    /\ responses = {}
    /\ audit = <<>>
    /\ now = 0
    /\ lastOp = NoCall
    /\ adjacencyList = EmptyGraph
    /\ cycle = <<>>
    /\ pending = <<>>

\* The first call after Init is explored.
NextCycle ==
    /\ lastOp = NoCall
    /\ \/ CriarFormulario(FormIds, CycleInputs \ {FormInput(None(<<>>))})
       \/ AtualizarSchemaFormulario(FormIds, CycleInputs)

SpecCycle == InitCycle /\ [][NextCycle]_vars

-----------------------------------------------------------------------------
(* SpecGraph: a Graph built by addNode and addEdge, and asked for a cycle *)

GraphNodes == {"a", "b", "c"}

Edgecount(g) ==
    LET RECURSIVE Sum(_)
        Sum(S) == IF S = {} THEN 0
                  ELSE LET x == CHOOSE y \in S : TRUE IN Len(g.adj[x]) + Sum(S \ {x})
    IN  Sum(DOMAIN g.adj)

AddNode ==
    \E node \in GraphNodes :
        /\ adjacencyList' = addNode(adjacencyList, node)
        /\ lastOp' = [NoCall EXCEPT !.op = "addNode"]
        /\ UNCHANGED <<forms, responses, audit, now, cycle, pending>>

\* Explored while fewer than MaxEdges edges are stored.
AddEdge ==
    \E source \in GraphNodes, destination \in GraphNodes :
        LET r == addEdge(adjacencyList, source, destination)
        IN  /\ Edgecount(adjacencyList) < MaxEdges
            /\ adjacencyList' = r.g
            /\ lastOp' = [NoCall EXCEPT !.op = "addEdge", !.erro = r.erro]
            /\ UNCHANGED <<forms, responses, audit, now, cycle, pending>>

HasCycle ==
    /\ cycle' = hasCycle(adjacencyList)
    /\ lastOp' = [NoCall EXCEPT !.op = "hasCycle"]
    /\ UNCHANGED <<forms, responses, audit, now, adjacencyList, pending>>

NextGraph == AddNode \/ AddEdge \/ HasCycle

SpecGraph == InitEmpty /\ [][NextGraph]_vars

-----------------------------------------------------------------------------
(* SpecProtect: forms whose every update carries protegido = false *)

ProtectCreateInputs ==
    {[FormInput(Some(<<Peso>>)) EXCEPT !.protegido = p] : p \in {None(FALSE), Some(TRUE)}}

ProtectUpdateInputs ==
    {[FormInput(Some(c)) EXCEPT !.protegido = Some(FALSE), !.is_ativo = Some(FALSE),
                                !.data_criacao = MaxTime + 1] : c \in {<<Peso>>, <<Peso, Imc>>}}

NextProtect ==
    \/ CriarFormulario(FormIds, ProtectCreateInputs)
    \/ AtualizarSchemaFormulario(FormIds, ProtectUpdateInputs)
    \/ DesativarFormulario(FormIds, Users)
    \/ Tick

SpecProtect == InitEmpty /\ [][NextProtect]_vars

-----------------------------------------------------------------------------
(* SpecValidate: FieldValidator.validate on a family of fields and values,
   and Create and UpdateSchema with field lists of that family *)

\* One call of FieldValidator.validate(value, field): the call and its outcome.
Validate(fields, values) ==
    \E field \in fields, value \in values :
        LET r == validate(value, field)
        IN  /\ lastOp' = [NoCall EXCEPT
                             !.op = "validate",
                             !.form = FormInput(Some(<<field>>)),
                             !.respostas = IF value = Undefined THEN <<>>
                                           ELSE [x \in {field.id} |-> value],
                             !.erro = IF r = "ok" THEN "" ELSE ErrorKind(r),
                             !.detalhe = r]
            /\ UNCHANGED <<forms, responses, audit, now, adjacencyList, cycle, pending>>

CalculatedFields ==
    {[Field("imc", "calculated") EXCEPT !.formula = f, !.dependencias = d, !.obrigatorio = o] :
        f \in {<<>>, <<"peso", "peso">>},
        d \in {None(<<>>), Some(<<>>), Some(<<"peso">>)},
        o \in BOOLEAN}

TextFields ==
    {[Field("nome", "text") EXCEPT !.obrigatorio = o, !.tamanho_minimo = m, !.regex = r] :
        o \in BOOLEAN, m \in {0, 3}, r \in {"", "^[A-Z].*"}}

BooleanFields == {[Field("ativo", "boolean") EXCEPT !.obrigatorio = o] : o \in BOOLEAN}

SelectFields ==
    {[Field("sexo", "select") EXCEPT !.obrigatorio = o, !.multipla = m,
                                     !.opcoes = <<"feminino", "masculino">>] :
        o \in BOOLEAN, m \in BOOLEAN}

DateFields ==
    {[Field("nascimento", "date") EXCEPT !.obrigatorio = o, !.minima = a, !.maxima = b] :
        o \in BOOLEAN, a \in {"", "2000-01-01"}, b \in {"", "2025-12-31"}}

ValidateFields ==
    CalculatedFields \cup TextFields \cup BooleanFields \cup SelectFields \cup DateFields

ValidateValues ==
    {Undefined, Num(7), Bool(TRUE), Bool(FALSE),
     Str(""), Str("Ana"), Str("John Doe"), Str("ab"), Str("masculino"), Str("outro"),
     Str("1999-12-31"), Str("2000-01-01"), Str("2020-01-01"), Str("2026-01-01"),
     Arr(<<>>), Arr(<<"masculino">>), Arr(<<"masculino", "feminino">>), Arr(<<"outro">>)}

ValidateFormInputs ==
    {FormInput(Some(<<Peso, f>>)) : f \in CalculatedFields}
    \cup {FormInput(Some(<<f, Peso>>)) : f \in CalculatedFields}

\* The first call after Init is explored: validate keeps no state.
NextValidate ==
    /\ lastOp = NoCall
    /\ \/ Validate(ValidateFields, ValidateValues)
       \/ CriarFormulario(FormIds, ValidateFormInputs)
       \/ AtualizarSchemaFormulario(FormIds, ValidateFormInputs)

SpecValidate == InitCycle /\ [][NextValidate]_vars

-----------------------------------------------------------------------------
(* SpecCalculate: Calculator.calculate on a family of fields and value maps,
   and submissions to a form that the seed script inserted *)

\* One call of Calculator.calculate(field, values): the call and its outcome.
Calculate(fields, maps) ==
    \E field \in fields, values \in maps :
        LET r == calculate(field, values)
        IN  /\ lastOp' = [NoCall EXCEPT
                             !.op = "calculate",
                             !.form = FormInput(Some(<<field>>)),
                             !.respostas = values,
                             !.erro = r.erro,
                             !.detalhe = field.id,
                             !.faltando = r.faltando]
            /\ UNCHANGED <<forms, responses, audit, now, adjacencyList, cycle, pending>>

CalculateFields ==
    {[Field("imc", "calculated") EXCEPT !.formula = f, !.dependencias = d] :
        f \in {<<>>, <<"peso", "peso">>, <<"peso", "altura">>},
        d \in {None(<<>>), Some(<<>>), Some(<<"peso">>), Some(<<"altura", "peso">>),
               Some(<<"peso", "altura", "idade">>)}}

CalculateMaps ==
    UNION {[keys -> {Num(2), Str("dois")}] : keys \in SUBSET {"peso", "altura"}}
    \cup {[x \in {"altura", "idade", "peso"} |-> Num(2)]}

NextCalculate ==
    \/ Calculate(CalculateFields, CalculateMaps)
    \/ EnviarResposta(FormIds, SeedSubmitInputs)
    \/ Tick

SpecCalculate == InitSeed /\ [][NextCalculate]_vars

-----------------------------------------------------------------------------
(* SpecRace: calls on one form that overlap in time *)

Slots == 1..MaxPending

\* A call that starts takes the first free slot.
FreeSlots ==
    LET free == Slots \ DOMAIN pending
    IN  {p \in free : \A q \in free : p <= q}

\* The calls that have logged or are to log an entry.
Started == Len(audit) + Cardinality(DOMAIN pending)

LerAtualizacao(ids, inputs) ==
    \E p \in FreeSlots, id \in ids, form \in inputs :
        /\ Started < MaxLog
        /\ id \in DOMAIN forms => forms[id].schema_version < MaxVersion
        /\ lerAtualizacao(p, id, form)

GravarAtualizacao == \E p \in DOMAIN pending : gravarAtualizacao(p)

LerEnvio(ids, inputs) ==
    \E p \in FreeSlots, id \in ids, in \in inputs :
        /\ Started < MaxLog
        /\ Cardinality(responses) < MaxResponses
        /\ lerEnvio(p, id, in.respostas, in.schema_version)

GravarEnvio == \E p \in DOMAIN pending : gravarEnvio(p)

RaceCreateInputs == {FormInput(Some(<<Peso>>))}
RaceUpdateInputs == {FormInput(Some(c)) : c \in {<<Peso>>, <<Peso, Imc>>}}
RaceSubmitInputs ==
    {[respostas |-> [x \in {"peso"} |-> Num(2)], schema_version |-> v] : v \in {Absent, 0}}

NextRace ==
    \/ CriarFormulario(FormIds, RaceCreateInputs)
    \/ LerAtualizacao(FormIds, RaceUpdateInputs)
    \/ GravarAtualizacao
    \/ LerEnvio(FormIds, RaceSubmitInputs)
    \/ GravarEnvio
    \/ DesativarFormulario(FormIds, {"ana"})

SpecRace == InitEmpty /\ [][NextRace]_vars

-----------------------------------------------------------------------------
(* SpecConditional: submissions to a stored form whose field gravidez carries
   a condition of a family *)

\* The conditions, as the tokens split("=") works on: the seed script's
\* "sexo == 'feminino'" and the test fixture's "sexo === 'feminino'" among them.
Condicionais ==
    {<<"sexo", "=", "feminino">>,
     <<"sexo">>,
     <<"=", "feminino">>,
     <<"sexo", "=">>,
     <<"=">>,
     <<"sexo", "=", "feminino", "=", "x">>,
     <<"sexo ", "=", "=", " 'feminino'">>,
     <<"sexo ", "=", "=", "=", " 'feminino'">>}

\* A calculated field that is asked for when sexo is feminino.
ImcSeFeminino == [Imc EXCEPT !.condicional = <<"sexo", "=", "feminino">>]

InitConditional ==
    /\ \E campos \in {<<[Gravidez EXCEPT !.condicional = c]>> : c \in Condicionais}
                      \cup {<<Peso, ImcSeFeminino>>} :
          forms = [id \in FormIds |-> SeedForm(campos)]
    /\ responses = {}
    /\ audit = <<>>
    /\ now = 0
    /\ lastOp = NoCall
    /\ adjacencyList = EmptyGraph
    /\ cycle = <<>>
    /\ pending = <<>>

ConditionalSubmitInputs ==
    {[respostas |-> Respostas(s, g, p, FALSE), schema_version |-> Absent] :
        s \in {"", "feminino", "masculino"}, g \in BOOLEAN, p \in BOOLEAN}

NextConditional ==
    \/ EnviarResposta(FormIds, ConditionalSubmitInputs)
    \/ Tick

SpecConditional == InitConditional /\ [][NextConditional]_vars

-----------------------------------------------------------------------------
(* SpecLifecycle: every operation that writes, on one form and its responses *)

LifecycleCreateInputs ==
    {[FormInput(Some(<<Peso>>)) EXCEPT !.is_ativo = a] : a \in {None(FALSE), Some(FALSE)}}
LifecycleUpdateInputs == {[FormInput(Some(<<Peso, Imc>>)) EXCEPT !.is_ativo = Some(TRUE)]}
LifecycleSubmitInputs == {[respostas |-> [x \in {"peso"} |-> Num(2)], schema_version |-> Absent]}

NextLifecycle ==
    \/ CriarFormulario(FormIds, LifecycleCreateInputs)
    \/ AtualizarSchemaFormulario(FormIds, LifecycleUpdateInputs)
    \/ EnviarResposta(FormIds, LifecycleSubmitInputs)
    \/ DesativarFormulario(FormIds, Users)
    \/ DesativarResposta(FormIds, {"ana"})
    \/ Tick

SpecLifecycle == InitEmpty /\ [][NextLifecycle]_vars

-----------------------------------------------------------------------------
(* Claims on the life of the forms (SpecForms) *)

Succeeded(op) == lastOp.op = op /\ lastOp.erro = ""

\* The successful updates of form id so far: one log entry each.
Atualizacoes(id) ==
    Cardinality({i \in DOMAIN audit :
                    audit[i].acao = "atualizacao_schema" /\ audit[i].id = id})

\* C1: a form that Create has just persisted has schema_version 1 and is
\* active, whatever schema_version and is_ativo the caller supplied, and
\* its protegido is the caller's when the caller set it and false otherwise.
C1_CreateDefaults ==
    Succeeded("criarFormulario") =>
        /\ lastOp.id \in DOMAIN forms
        /\ forms[lastOp.id].schema_version = 1
        /\ forms[lastOp.id].is_ativo = TRUE
        /\ forms[lastOp.id].protegido =
              (IF lastOp.form.protegido.def THEN lastOp.form.protegido.v ELSE FALSE)

\* Create succeeded for a caller that supplied another version, is_ativo
\* false and protegido true.
C1_Witness ==
    /\ Succeeded("criarFormulario")
    /\ lastOp.form.schema_version = MaxVersion + 1
    /\ lastOp.form.is_ativo = Some(FALSE)
    /\ lastOp.form.protegido = Some(TRUE)
    /\ forms[lastOp.id].protegido = TRUE

\* C2: the stored schema_version of a form is 1 plus the number of its
\* successful updates; every step that changes it adds exactly 1 (so the
\* number the caller supplied is never what is persisted, and the version
\* never decreases).
C2_VersionCountsUpdates ==
    /\ [](\A id \in DOMAIN forms : forms[id].schema_version = 1 + Atualizacoes(id))
    /\ [][\A id \in DOMAIN forms :
            /\ id \in DOMAIN forms'
            /\ forms'[id].schema_version >= forms[id].schema_version
            /\ forms'[id].schema_version # forms[id].schema_version =>
                  /\ forms'[id].schema_version = forms[id].schema_version + 1
                  /\ lastOp'.op = "atualizarSchemaFormulario"
                  /\ lastOp'.id = id
                  /\ lastOp'.erro = ""
                  /\ Atualizacoes(id)' = Atualizacoes(id) + 1]_vars

\* An update succeeded whose caller supplied a number that is not the one
\* persisted, on a form updated MaxVersion - 1 times.
C2_Witness ==
    /\ Succeeded("atualizarSchemaFormulario")
    /\ lastOp.form.schema_version = MaxVersion + 1
    /\ forms[lastOp.id].schema_version = MaxVersion
    /\ Atualizacoes(lastOp.id) = MaxVersion - 1

C10_ProtectedFormKept ==
    LET OnProtectedActive ==
            /\ lastOp.op = "desativarFormulario"
            /\ lastOp.id \in DOMAIN forms
            /\ forms[lastOp.id].protegido
            /\ lastOp.erro # "InactiveFormError"
    IN  OnProtectedActive =>
            (lastOp.erro = "ProtectedFormError" /\ forms[lastOp.id].is_ativo)

\* The soft delete of a protected form succeeded.
C10_ProtectedFormRemoved ==
    /\ Succeeded("desativarFormulario")
    /\ forms[lastOp.id].protegido
    /\ ~forms[lastOp.id].is_ativo
    /\ forms[lastOp.id].usuario_remocao = lastOp.usuario

-----------------------------------------------------------------------------
(* Claims on forms and their responses (Spec) *)

\* The dependency relation of a field list: an edge from each field id to
\* each id in its dependencies list.
Edges(campos) ==
    UNION {{<<campos[i].id, dep>> : dep \in Range(campos[i].dependencias.v)} :
              i \in DOMAIN campos}

\* The nodes reachable from the nodes of S along one or more edges of E.
RECURSIVE ReachFrom(_, _)
ReachFrom(E, S) ==
    LET T == S \cup {e[2] : e \in {d \in E : d[1] \in S}}
    IN  IF T = S THEN S ELSE ReachFrom(E, T)

OnCycle(E, n) == n \in ReachFrom(E, {e[2] : e \in {d \in E : d[1] = n}})
Cyclic(E) == \E e \in E : OnCycle(E, e[1])

\* Every field of the list passes validate(undefined, field).
CamposOk(campos) == \A i \in DOMAIN campos : validate(Undefined, campos[i]) = "ok"

\* Every ungated field that is not calculated accepts its submitted value, and
\* every calculated field can be computed.
RespostasOk(campos, respostas) ==
    \A i \in DOMAIN campos :
        LET campo == campos[i]
            cond == avaliarCondicional(campo.condicional, respostas)
        IN  IF campo.tipo = "calculated" THEN calculate(campo, respostas).erro = ""
            ELSE IF campo.condicional # <<>>
                 THEN cond.erro = "" /\ (cond.valor => validate(Get(respostas, campo.id), campo) = "ok")
                 ELSE validate(Get(respostas, campo.id), campo) = "ok"

\* C4: a SubmitResponse on an active form that cites a schema_version other
\* than the form's current one fails with SchemaVersionMismatchError and
\* stores no response.
C4_MismatchRejected ==
    LET CitesOther ==
            /\ lastOp.op = "enviarResposta"
            /\ lastOp.id \in DOMAIN forms
            /\ forms[lastOp.id].is_ativo
            /\ lastOp.schema_version # Absent
            /\ lastOp.schema_version # forms[lastOp.id].schema_version
    IN  CitesOther => (lastOp.erro = "SchemaVersionMismatchError")

\* A submission citing version 0 was stored, with the form's current version.
C4_ZeroStored ==
    /\ Succeeded("enviarResposta")
    /\ lastOp.schema_version = 0
    /\ forms[lastOp.id].schema_version = MaxVersion
    /\ \E r \in responses :
          r.id = lastOp.respostaId /\ r.schema_version = forms[lastOp.id].schema_version

\* C5: a step of Create, UpdateSchema or SubmitResponse that changes the
\* stored forms or responses reports no error, and the fields (Create,
\* UpdateSchema: validation, cycle detection, version check) or the
\* submission (SubmitResponse: version check, gating, validation, formula
\* evaluation) pass every check; a call that reports an error leaves forms
\* and responses as they were.  (The version checks are the code's: a
\* version of 0 counts as none supplied, see C3 and C4.)
C5_AllOrNothing ==
    [][/\ lastOp' # lastOp /\ lastOp'.erro # "" => forms' = forms /\ responses' = responses
       /\ (forms' # forms \/ responses' # responses) => lastOp'.erro = ""
       /\ forms' # forms /\ lastOp'.op = "criarFormulario" =>
             /\ responses' = responses
             /\ CamposOk(lastOp'.form.campos.v)
             /\ ~Cyclic(Edges(lastOp'.form.campos.v))
       /\ forms' # forms /\ lastOp'.op = "atualizarSchemaFormulario" =>
             /\ responses' = responses
             /\ CamposOk(lastOp'.form.campos.v)
             /\ ~Cyclic(Edges(lastOp'.form.campos.v))
             /\ lastOp'.form.schema_version \in {Absent, 0}
                \/ lastOp'.form.schema_version > forms[lastOp'.id].schema_version
       /\ responses' # responses /\ lastOp'.op = "enviarResposta" =>
             /\ forms' = forms
             /\ lastOp'.schema_version \in {Absent, 0, forms[lastOp'.id].schema_version}
             /\ RespostasOk(forms[lastOp'.id].campos, lastOp'.respostas)
      ]_vars

\* A submission failed in conditional gating, after the version check, with a
\* response already stored.
C5_Witness ==
    /\ lastOp.op = "enviarResposta"
    /\ lastOp.erro = "InvalidConditionalError"
    /\ lastOp.schema_version = Absent
    /\ responses # {}

-----------------------------------------------------------------------------
(* Claims on the responses to a seeded form (SpecSubmit) *)

\* The last call was a SubmitResponse that got past the checks of the form
\* and of the cited version.
SubmitReachedFields ==
    /\ lastOp.op = "enviarResposta"
    /\ lastOp.erro \notin {"NotFoundError", "InactiveFormError", "SchemaVersionMismatchError"}

\* The required fields of the form that carry the condition sexo=feminino.
GatedRequired(campos) ==
    {i \in DOMAIN campos :
        /\ campos[i].obrigatorio
        /\ campos[i].tipo # "calculated"
        /\ campos[i].condicional = <<"sexo", "=", "feminino">>}

Without(campos, i) == SubSeq(campos, 1, i - 1) \o SubSeq(campos, i + 1, Len(campos))

\* The response the last call stored.
Stored == {r \in responses : r.id = lastOp.respostaId /\ r.formId = lastOp.id}

ChainedCalculated(campos) ==
    {i \in DOMAIN campos :
        /\ campos[i].tipo = "calculated"
        /\ \E j \in DOMAIN campos :
              /\ campos[j].tipo = "calculated"
              /\ campos[j].id \in Range(campos[i].dependencias.v)}

\* C9: on an acyclic form in which a calculated field lists another calculated
\* field in its dependencies, a submission that supplies the submitted values
\* the formulas need (peso) and no calculated value is stored, with every
\* calculated field in the computed map.
C9_ChainEvaluated ==
    LET campos == forms[lastOp.id].campos
        Chained ==
            /\ SubmitReachedFields
            /\ ChainedCalculated(campos) # {}
            /\ ~Cyclic(Edges(campos))
            /\ lastOp.respostas = Respostas("", FALSE, TRUE, FALSE)
    IN  Chained =>
            /\ lastOp.erro \in {"", "PersistenceError"}
            /\ lastOp.erro = "" =>
                  \E r \in Stored :
                      \A i \in DOMAIN campos :
                          campos[i].tipo = "calculated" => campos[i].id \in DOMAIN r.calculados

\* The submission of peso alone to the form peso, imc, classificacao failed:
\* classificacao misses its dependency imc.
C9_ChainFails ==
    /\ lastOp.op = "enviarResposta"
    /\ lastOp.id \in DOMAIN forms
    /\ forms[lastOp.id].campos = toJSON(CamposCadeia)
    /\ lastOp.respostas = Respostas("", FALSE, TRUE, FALSE)
    /\ lastOp.erro = "MissingDependencyError"
    /\ lastOp.detalhe = "classificacao"
    /\ lastOp.faltando = <<"imc">>

-----------------------------------------------------------------------------
(* Claims on cycle detection (SpecCycle, SpecGraph) *)

\* The last call was a Create or an UpdateSchema that got as far as the cycle
\* check.
ReachedCycleCheck ==
    /\ lastOp.op \in {"criarFormulario", "atualizarSchemaFormulario"}
    /\ lastOp.erro \notin {"NotFoundError", "InactiveFormError", "ValidationError",
                           "TypeError", "UnsupportedFieldKindError"}

\* C6: a Create or UpdateSchema whose field list has a cyclic dependency
\* relation fails with CircularDependencyError naming a field on a cycle, and
\* stores nothing; on an acyclic relation the cycle check does not fail.
C6_CycleRejected ==
    ReachedCycleCheck =>
        LET E == Edges(lastOp.form.campos.v)
        IN  IF Cyclic(E)
            THEN /\ lastOp.erro = "CircularDependencyError"
                 /\ OnCycle(E, lastOp.detalhe)
                 /\ forms \in {<<>>, [id \in FormIds |-> SeedForm(<<Peso>>)]}
            ELSE lastOp.erro # "CircularDependencyError"

\* a lists b, b lists a, and a second field a lists nothing: Create stored
\* the list.
C6_DuplicateIdAccepted ==
    /\ Succeeded("criarFormulario")
    /\ Len(lastOp.form.campos.v) = 3
    /\ lastOp.form.campos.v[1].id = "a" /\ lastOp.form.campos.v[1].dependencias = Some(<<"b">>)
    /\ lastOp.form.campos.v[2].id = "b" /\ lastOp.form.campos.v[2].dependencias = Some(<<"a">>)
    /\ lastOp.form.campos.v[3].id = "a" /\ lastOp.form.campos.v[3].dependencias = Some(<<>>)
    /\ forms[lastOp.id].campos = toJSON(lastOp.form.campos.v)

\* The edges of a Graph: from each node to each element of its list.
GraphEdges(g) == UNION {{<<n, m>> : m \in Range(g.adj[n])} : n \in DOMAIN g.adj}

\* C7: hasCycle returns null on an acyclic graph, and on a graph with a
\* cycle a sequence of two or more nodes whose first and last are equal (and
\* whose consecutive nodes are joined by edges).
C7_HasCycle ==
    lastOp.op = "hasCycle" =>
        IF Cyclic(GraphEdges(adjacencyList))
        THEN /\ Len(cycle) >= 2
             /\ cycle[1] = cycle[Len(cycle)]
             /\ \A i \in 1..(Len(cycle) - 1) :
                   <<cycle[i], cycle[i + 1]>> \in GraphEdges(adjacencyList)
        ELSE cycle = <<>>

\* hasCycle returned a cycle through three nodes.
C7_Witness ==
    /\ lastOp.op = "hasCycle"
    /\ Len(cycle) = 4
    /\ cycle[1] = cycle[4]
    /\ Cardinality(Range(cycle)) = 3

-----------------------------------------------------------------------------
(* Claims on protection and removal (SpecProtect) *)

-----------------------------------------------------------------------------
(* Claims on the stored responses (Spec, SpecSubmit) *)

\* The successful submissions so far: one log entry each.
Submissoes ==
    Cardinality({i \in DOMAIN audit : audit[i].acao = "submissao_resposta"})

CalculatedIds(campos) == {campos[i].id : i \in {j \in DOMAIN campos : campos[j].tipo = "calculated"}}

\* C13: a SubmitResponse whose values carry an entry under the id of a
\* calculated field of the form fails with a validation error and stores
\* nothing, and no stored response carries a submitted value for a calculated
\* field of its form.
C13_CalculatedNotSupplied ==
    /\ (/\ SubmitReachedFields
        /\ DOMAIN lastOp.respostas \cap CalculatedIds(forms[lastOp.id].campos) # {})
       => (lastOp.erro = "ValidationError" /\ Stored = {})
    /\ \A r \in responses :
           DOMAIN r.respostas \cap CalculatedIds(forms[r.formId].campos) = {}

\* The submission {peso, imc} to the form peso, imc, classificacao was stored
\* with the caller's value under imc.
C13_SuppliedStored ==
    /\ Succeeded("enviarResposta")
    /\ forms[lastOp.id].campos = toJSON(CamposCadeia)
    /\ lastOp.respostas = Respostas("", FALSE, TRUE, TRUE)
    /\ \E r \in Stored : r.respostas["imc"] = Num(7) /\ "imc" \in DOMAIN r.calculados

-----------------------------------------------------------------------------
(* Claims on missing and inactive forms (Spec) *)

\* The responses stored under a form.
RespostasDe(table, formId) == {r \in table : r.formId = formId}

\* C14: an UpdateSchema or SubmitResponse on an id with no stored form fails
\* with NotFoundError, and on an inactive form with InactiveFormError, whatever
\* the fields or values it carries, and writes nothing; no step changes the
\* schema_version, the fields or the responses of an inactive form.
C14_GuardsBeforeValidation ==
    [][/\ (lastOp' # lastOp /\ lastOp'.op \in {"atualizarSchemaFormulario", "enviarResposta"})
          => /\ (lastOp'.id \notin DOMAIN forms)
                => (/\ lastOp'.erro = "NotFoundError"
                    /\ forms' = forms /\ responses' = responses /\ audit' = audit)
             /\ (lastOp'.id \in DOMAIN forms /\ ~forms[lastOp'.id].is_ativo)
                => (/\ lastOp'.erro = "InactiveFormError"
                    /\ forms' = forms /\ responses' = responses /\ audit' = audit)
       /\ \A id \in DOMAIN forms :
              (~forms[id].is_ativo)
              => (/\ id \in DOMAIN forms'
                  /\ forms'[id].schema_version = forms[id].schema_version
                  /\ forms'[id].campos = forms[id].campos
                  /\ RespostasDe(responses', id) = RespostasDe(responses, id))
      ]_vars

\* An UpdateSchema carrying a field list that validation rejects, on a form
\* that holds a response and was soft-deleted, failed with InactiveFormError.
C14_Witness ==
    /\ lastOp.op = "atualizarSchemaFormulario"
    /\ lastOp.erro = "InactiveFormError"
    /\ validarCampos(lastOp.form.campos.v) # "ok"
    /\ RespostasDe(responses, lastOp.id) # {}

-----------------------------------------------------------------------------
(* Claims on the active flag (SpecLifecycle) *)

\* C15: a step changes a stored form's is_ativo only when it is a successful
\* SoftDeleteForm on that form, and only from TRUE to FALSE; a SoftDeleteForm
\* on an inactive form fails with InactiveFormError and leaves the form, its
\* removal time and actor included, as it was.
C15_ActiveOnlyFalls ==
    [][\A id \in DOMAIN forms :
          /\ id \in DOMAIN forms'
          /\ (forms'[id].is_ativo # forms[id].is_ativo)
             => (/\ forms[id].is_ativo /\ ~forms'[id].is_ativo
                 /\ lastOp'.op = "desativarFormulario" /\ lastOp'.id = id
                 /\ lastOp'.erro = "")
          /\ (~forms[id].is_ativo) => (~forms'[id].is_ativo)
          /\ (/\ lastOp' # lastOp /\ lastOp'.op = "desativarFormulario"
              /\ lastOp'.id = id /\ ~forms[id].is_ativo)
             => (/\ lastOp'.erro = "InactiveFormError"
                 /\ forms'[id].data_remocao = forms[id].data_remocao
                 /\ forms'[id].usuario_remocao = forms[id].usuario_remocao)
      ]_vars

\* A second SoftDeleteForm, by another actor at a later time, failed on the
\* form the first one removed.
C15_Witness ==
    /\ lastOp.op = "desativarFormulario"
    /\ lastOp.erro = "InactiveFormError"
    /\ forms[lastOp.id].usuario_remocao # lastOp.usuario
    /\ forms[lastOp.id].data_remocao < now

-----------------------------------------------------------------------------
(* Claims on the removal of a response (SpecSubmit) *)

\* C16: a SoftDeleteResponse fails with NotFoundError when the form holds no
\* response of that id and with InactiveResponseError when that response is
\* inactive, writing nothing; otherwise it succeeds, that response becomes
\* inactive with the caller as actor, and every other response and every form
\* stay as they were.
C16_ResponseRemoval ==
    [][(lastOp' # lastOp /\ lastOp'.op = "desativarResposta")
       => LET found == {r \in responses :
                           r.id = lastOp'.respostaId /\ r.formId = lastOp'.id}
          IN  /\ forms' = forms
              /\ (found = {})
                 => (/\ lastOp'.erro = "NotFoundError"
                     /\ responses' = responses /\ audit' = audit)
              /\ (\E r \in found : ~r.is_ativo)
                 => (/\ lastOp'.erro = "InactiveResponseError"
                     /\ responses' = responses /\ audit' = audit)
              /\ (\E r \in found : r.is_ativo)
                 => (/\ lastOp'.erro = ""
                     /\ responses' = (responses \ found) \cup
                            {[r EXCEPT !.is_ativo = FALSE, !.data_remocao = now,
                                       !.usuario_remocao = lastOp'.usuario] : r \in found})
      ]_vars

\* A response was removed while another response of the same form stays
\* active.
C16_Witness ==
    /\ Succeeded("desativarResposta")
    /\ \E r1, r2 \in responses :
           /\ r1.id = lastOp.respostaId /\ ~r1.is_ativo /\ r1.usuario_remocao = lastOp.usuario
           /\ r2.id # r1.id /\ r2.formId = r1.formId /\ r2.is_ativo

-----------------------------------------------------------------------------
(* Claims on what UpdateSchema keeps (SpecProtect) *)

\* C17: a successful UpdateSchema leaves the stored data_criacao, is_ativo and
\* protegido of the form as they were before the call, whatever the partial
\* form carries for them.
C17_UpdatePreserves ==
    [][(audit' # audit /\ lastOp'.op = "atualizarSchemaFormulario")
       => (/\ forms'[lastOp'.id].data_criacao = forms[lastOp'.id].data_criacao
           /\ forms'[lastOp'.id].is_ativo = forms[lastOp'.id].is_ativo
           /\ forms'[lastOp'.id].protegido = forms[lastOp'.id].protegido)
      ]_vars

\* An update carrying is_ativo false, protegido false and another creation
\* time succeeded on a protected form, after the time of its creation.
C17_Witness ==
    /\ Succeeded("atualizarSchemaFormulario")
    /\ lastOp.form.is_ativo = Some(FALSE)
    /\ lastOp.form.protegido = Some(FALSE)
    /\ lastOp.form.data_criacao # Absent
    /\ forms[lastOp.id].protegido /\ forms[lastOp.id].is_ativo
    /\ forms[lastOp.id].data_criacao # lastOp.form.data_criacao
    /\ forms[lastOp.id].data_criacao < now
    /\ forms[lastOp.id].schema_version > 1

-----------------------------------------------------------------------------
(* Claims on FieldValidator (SpecValidate) *)

\* The field and the value of the last call of validate.
ValidatedField == lastOp.form.campos.v[1]
ValidatedValue == Get(lastOp.respostas, ValidatedField.id)

\* A calculated field without a formula or without dependencias.
Incomplete(field) ==
    field.tipo = "calculated" /\ (field.formula = <<>> \/ ~field.dependencias.def)

\* C18: validate fails on a calculated field that lacks formula or
\* dependencias, whatever the value, undefined included; a Create or an
\* UpdateSchema whose field list holds such a field fails, and no stored form
\* holds one.
C18_IncompleteCalculatedRejected ==
    /\ (lastOp.op = "validate" /\ Incomplete(ValidatedField))
       => (lastOp.erro # "" /\ lastOp.detalhe # "ok")
    /\ (/\ lastOp.op \in {"criarFormulario", "atualizarSchemaFormulario"}
        /\ \E i \in DOMAIN lastOp.form.campos.v : Incomplete(lastOp.form.campos.v[i]))
       => (lastOp.erro # "")
    /\ \A id \in DOMAIN forms :
           \A i \in DOMAIN forms[id].campos : ~Incomplete(forms[id].campos[i])

\* validate(undefined, field) failed on a calculated field that has a formula
\* and no dependencias.
C18_Witness ==
    /\ lastOp.op = "validate"
    /\ ValidatedField.tipo = "calculated"
    /\ ValidatedField.formula # <<>> /\ ~ValidatedField.dependencias.def
    /\ ValidatedValue = Undefined
    /\ lastOp.detalhe = "Campo calculado deve ter formula e dependencias"

\* The value is of the type the field's kind asks for and meets the field's
\* rules: length and pattern of a text, membership of a selection, bounds of a
\* date.
MeetsRules(value, field) ==
    CASE field.tipo = "text" ->
            /\ value.k = "string"
            /\ Len(value.s) >= field.tamanho_minimo
            /\ (field.regex # "") => RegexTest(field.regex, value.s)
      [] field.tipo = "boolean" -> value.k = "boolean"
      [] field.tipo = "select" ->
            IF field.multipla
            THEN value.k = "array" /\ Range(value.a) \subseteq Range(field.opcoes)
            ELSE value.k = "string" /\ value.s \in Range(field.opcoes)
      [] field.tipo = "date" ->
            /\ value.k = "string"
            /\ DateParse(value.s) # NaN
            /\ (field.minima # "") => (DateParse(value.s) >= DateParse(field.minima))
            /\ (field.maxima # "") => (DateParse(value.s) <= DateParse(field.maxima))
      [] OTHER -> FALSE

-----------------------------------------------------------------------------
(* Claims on Calculator (SpecCalculate) *)

\* The dependencies of a field that are no key of a value map.
Missing(field, values) == {dep \in Range(field.dependencias.v) : dep \notin DOMAIN values}

-----------------------------------------------------------------------------
(* Claims on the audit log (SpecLifecycle) *)

\* The acao of the entry each operation logs.
Acao(op) ==
    CASE op = "criarFormulario" -> "criacao_formulario"
      [] op = "atualizarSchemaFormulario" -> "atualizacao_schema"
      [] op = "enviarResposta" -> "submissao_resposta"
      [] op = "desativarFormulario" -> "exclusao_logica_formulario"
      [] op = "desativarResposta" -> "exclusao_logica_resposta"
      [] OTHER -> ""

\* C21: a step that writes a form or a response is a successful call and
\* appends exactly one entry, of the call's own kind and about the call's
\* form, to the log; a step that logs has written; a call that fails logs
\* nothing.
C21_OneEventPerSuccess ==
    [][/\ (forms' # forms \/ responses' # responses)
          => (/\ lastOp'.erro = ""
              /\ Len(audit') = Len(audit) + 1
              /\ SubSeq(audit', 1, Len(audit)) = audit
              /\ audit'[Len(audit')].acao = Acao(lastOp'.op)
              /\ audit'[Len(audit')].id = lastOp'.id)
       /\ (audit' # audit) => (forms' # forms \/ responses' # responses)
       /\ (lastOp'.erro # "" /\ lastOp' # lastOp) => (audit' = audit)
      ]_vars

\* Every one of the five kinds of entry has been logged.
C21_Witness ==
    {audit[i].acao : i \in DOMAIN audit} =
        {Acao(op) : op \in {"criarFormulario", "atualizarSchemaFormulario", "enviarResposta",
                            "desativarFormulario", "desativarResposta"}}

-----------------------------------------------------------------------------
(* Claims on calls that overlap (SpecRace) *)

\* C22: the write of an UpdateSchema that has read the form succeeds whatever
\* other calls wrote since: it stores the version it read plus one and its own
\* fields, and logs its entry.
C22_UpdateWritesFromItsRead ==
    [][\A p \in DOMAIN pending :
          (pending[p].call.op = "atualizarSchemaFormulario" /\ p \notin DOMAIN pending')
          => LET call == pending[p].call
             IN  /\ lastOp' = call /\ lastOp'.erro = ""
                 /\ forms'[call.id].schema_version = pending[p].formulario.schema_version + 1
                 /\ forms'[call.id].campos = toJSON(call.form.campos.v)
                 /\ audit' = Append(audit, [acao |-> "atualizacao_schema", id |-> call.id,
                                            usuario |-> "system"])
      ]_vars

\* Two updates of the form created with version 1 have succeeded, the version
\* is 2, and the fields are those of the update that wrote last, which
\* replaced the fields stored meanwhile.
C22_Witness ==
    /\ Succeeded("atualizarSchemaFormulario")
    /\ Atualizacoes(lastOp.id) = 2
    /\ forms[lastOp.id].schema_version = 2
    /\ forms[lastOp.id].campos = toJSON(lastOp.form.campos.v)
    /\ lastOp.form.campos.v = <<Peso>>

-----------------------------------------------------------------------------
(* Claims on the target version of a submission (Spec) *)

\* C23: in a SubmitResponse on an active form the target version is the
\* form's version when no schema_version is given and the given number
\* otherwise, 0 included; when the target differs from the form's version the
\* call fails with SchemaVersionMismatchError and stores nothing.
C23_ExplicitVersionIsTarget ==
    [][(/\ lastOp' # lastOp \/ responses' # responses
        /\ lastOp'.op = "enviarResposta"
        /\ lastOp'.id \in DOMAIN forms
        /\ forms[lastOp'.id].is_ativo)
       => LET stored == forms[lastOp'.id].schema_version
              target == IF lastOp'.schema_version = Absent
                        THEN stored ELSE lastOp'.schema_version
          IN  (target # stored)
              => (lastOp'.erro = "SchemaVersionMismatchError" /\ responses' = responses)
      ]_vars

\* A submission that gave schema_version 0 was stored, as a response to
\* version 1 of the form.
C23_ZeroFallsBack ==
    /\ Succeeded("enviarResposta")
    /\ lastOp.schema_version = 0
    /\ \E r \in Stored : r.schema_version = 1 /\ forms[r.formId].schema_version = 1

-----------------------------------------------------------------------------
(* Claims on conditions (SpecConditional) *)

\* The condition splits on "=" into exactly two parts, none of them empty.
TwoParts(condicional) ==
    LET parts == Split(condicional)
    IN  Len(parts) = 2 /\ parts[1] # "" /\ parts[2] # ""

\* C24: a submission that evaluates the condition of a field fails with
\* InvalidConditionalError, storing nothing, exactly when the condition does
\* not split on "=" into two non-empty parts.
C24_OnlyTwoParts ==
    (SubmitReachedFields /\ forms[lastOp.id].campos[1].condicional # <<>>)
    => LET campo == forms[lastOp.id].campos[1]
       IN  /\ (~TwoParts(campo.condicional))
              => (lastOp.erro = "InvalidConditionalError" /\ Stored = {})
           /\ TwoParts(campo.condicional) => (lastOp.erro # "InvalidConditionalError")

\* A submission was stored although the condition of the form's field has two
\* "=": the parts after the second are ignored.
C24_ThreePartsAccepted ==
    /\ Succeeded("enviarResposta")
    /\ forms[lastOp.id].campos[1].condicional = <<"sexo", "=", "feminino", "=", "x">>
    /\ Stored # {}

\* The calculated fields whose condition is false for the values.
CalculatedOutOfScope(campos, respostas) ==
    {i \in DOMAIN campos :
        /\ campos[i].tipo = "calculated"
        /\ campos[i].condicional # <<>>
        /\ avaliarCondicional(campos[i].condicional, respostas).erro = ""
        /\ ~avaliarCondicional(campos[i].condicional, respostas).valor}

\* C25: a calculated field whose condition is false for the submitted values
\* is not computed: it does not make the submission fail for a missing
\* dependency, and the stored response has no computed value under its id.
C25_OutOfScopeNotComputed ==
    SubmitReachedFields
    => \A i \in CalculatedOutOfScope(forms[lastOp.id].campos, lastOp.respostas) :
           /\ ~(lastOp.erro = "MissingDependencyError"
                /\ lastOp.detalhe = forms[lastOp.id].campos[i].id)
           /\ \A r \in Stored : forms[lastOp.id].campos[i].id \notin DOMAIN r.calculados

\* The submission {sexo: masculino, peso: 2} was stored with a computed imc,
\* although imc is asked for only when sexo is feminino.
C25_ComputedAnyway ==
    /\ Succeeded("enviarResposta")
    /\ forms[lastOp.id].campos = toJSON(<<Peso, ImcSeFeminino>>)
    /\ lastOp.respostas = Respostas("masculino", FALSE, TRUE, FALSE)
    /\ \E r \in Stored : "imc" \in DOMAIN r.calculados

-----------------------------------------------------------------------------
(* Claims on selections of several options (SpecValidate) *)

\* C26: on a required select field with multipla, validate accepts a sequence
\* exactly when it is not empty and each of its elements is an option, and
\* rejects a sequence with an element that is no option as an invalid option.
C26_MultipleSelect ==
    (/\ lastOp.op = "validate"
     /\ ValidatedField.tipo = "select"
     /\ ValidatedField.multipla /\ ValidatedField.obrigatorio
     /\ ValidatedValue.k = "array")
    => LET valid == Range(ValidatedValue.a) \subseteq Range(ValidatedField.opcoes)
       IN  /\ (lastOp.detalhe = "ok") <=> (ValidatedValue.a # <<>> /\ valid)
           /\ (~valid) => (lastOp.detalhe = "Opcao invalida")

\* validate accepted the empty sequence on a required select field with
\* multipla.
C26_EmptyAccepted ==
    /\ lastOp.op = "validate"
    /\ ValidatedField.tipo = "select"
    /\ ValidatedField.multipla /\ ValidatedField.obrigatorio
    /\ ValidatedValue = Arr(<<>>)
    /\ lastOp.detalhe = "ok" /\ lastOp.erro = ""

-----------------------------------------------------------------------------
(* Claims on required fields in a field list (SpecForms) *)

\* The last call carried a field list of one required text field with no
\* other rule.
CarriesRequiredText ==
    /\ lastOp.form.campos.def
    /\ lastOp.form.campos.v = <<NomeObrigatorio>>

\* C27: a Create whose field list is one required text field stores the form
\* with schema_version 1 unless the id is taken, and an UpdateSchema with that
\* list on an active form, giving no schema_version, succeeds.
C27_RequiredFieldAccepted ==
    /\ (lastOp.op = "criarFormulario" /\ CarriesRequiredText)
       => (/\ lastOp.erro \in {"", "PersistenceError"}
           /\ (lastOp.erro = "") => (forms[lastOp.id].schema_version = 1))
    /\ (/\ lastOp.op = "atualizarSchemaFormulario" /\ CarriesRequiredText
        /\ lastOp.id \in DOMAIN forms /\ forms[lastOp.id].is_ativo
        /\ lastOp.form.schema_version = Absent)
       => (lastOp.erro = "")

\* The Create of a form with one required text field failed, on an empty
\* database, with the validator's error for an absent value.
C27_RequiredRejected ==
    /\ lastOp.op = "criarFormulario"
    /\ CarriesRequiredText
    /\ lastOp.erro = "ValidationError" /\ lastOp.detalhe = "Required"
    /\ forms = <<>>

-----------------------------------------------------------------------------
(* Claims on what is never rewritten (SpecLifecycle) *)

\* C28: no step removes a form or a response; a stored response keeps its id,
\* form, schema_version, values, computed values and creation time; it changes
\* only in a successful SoftDeleteResponse of it; a successful UpdateSchema
\* leaves every response as it was.
C28_WriteOnce ==
    [][/\ DOMAIN forms \subseteq DOMAIN forms'
       /\ \A r \in responses :
             \E s \in responses' :
                /\ s.id = r.id /\ s.formId = r.formId
                /\ s.schema_version = r.schema_version
                /\ s.respostas = r.respostas /\ s.calculados = r.calculados
                /\ s.criado_em = r.criado_em
                /\ (s # r) => (/\ lastOp'.op = "desativarResposta" /\ lastOp'.erro = ""
                               /\ lastOp'.respostaId = r.id /\ lastOp'.id = r.formId)
       /\ (audit' # audit /\ lastOp'.op = "atualizarSchemaFormulario")
          => (responses' = responses)
      ]_vars

\* Two responses are stored, one of them removed, both given to an earlier
\* version of the form than the current one.
C28_Witness ==
    /\ Cardinality(responses) = 2
    /\ \E r \in responses : ~r.is_ativo /\ r.usuario_remocao # ""
    /\ \A r \in responses : r.schema_version < forms[r.formId].schema_version

-----------------------------------------------------------------------------
(* Claims on the two cycle checks (SpecCycle) *)

\* graph.addNode(campo.id) for each field of the list, in list order.
RECURSIVE addNodes(_, _, _)
addNodes(g, campos, i) ==
    IF i > Len(campos) THEN g
    ELSE addNodes(addNode(g, campos[i].id), campos, i + 1)

\* graph.addEdge(id, dependency) for each dependency of one field, in order.
RECURSIVE addDependencias(_, _, _, _)
addDependencias(g, id, deps, j) ==
    IF j > Len(deps) THEN g
    ELSE addDependencias(addEdge(g, id, deps[j]).g, id, deps, j + 1)

RECURSIVE addEdges(_, _, _)
addEdges(g, campos, i) ==
    IF i > Len(campos) THEN g
    ELSE addEdges(addDependencias(g, campos[i].id,
                                  IF campos[i].dependencias.def
                                  THEN campos[i].dependencias.v ELSE <<>>, 1),
                  campos, i + 1)

\* The Graph of a field list: its nodes first, then its edges.
GraphOf(campos) == addEdges(addNodes(EmptyGraph, campos, 1), campos, 1)

\* The ids of the list are distinct and every dependency names a field of
\* the list (so that no addEdge throws).
DistinctAndClosed(campos) ==
    /\ \A i, j \in DOMAIN campos : campos[i].id = campos[j].id => i = j
    /\ \A i \in DOMAIN campos :
          campos[i].dependencias.def =>
              \A d \in Range(campos[i].dependencias.v) :
                  \E k \in DOMAIN campos : campos[k].id = d

\* C29: for a field list with distinct ids whose dependencies all name fields
\* of the list, the cycle check of Create and UpdateSchema throws exactly when
\* hasCycle of the Graph of the list returns a cycle, and the field it names
\* is a node of that cycle.
C29_InlineAgreesWithGraph ==
    (/\ ReachedCycleCheck
     /\ lastOp.form.campos.def
     /\ DistinctAndClosed(lastOp.form.campos.v))
    => LET found == hasCycle(GraphOf(lastOp.form.campos.v))
       IN  /\ (lastOp.erro = "CircularDependencyError") <=> (found # <<>>)
           /\ (lastOp.erro = "CircularDependencyError")
              => (lastOp.detalhe \in Range(found))

\* Three fields with distinct ids; the first lies on no cycle, the other two
\* list each other: the check named one of the two, and the Graph returned
\* the cycle through them.
C29_Witness ==
    /\ ReachedCycleCheck
    /\ lastOp.form.campos.def
    /\ Len(lastOp.form.campos.v) = 3
    /\ DistinctAndClosed(lastOp.form.campos.v)
    /\ lastOp.erro = "CircularDependencyError"
    /\ lastOp.detalhe # lastOp.form.campos.v[1].id
    /\ Len(hasCycle(GraphOf(lastOp.form.campos.v))) = 3

-----------------------------------------------------------------------------
(* Claims on responses under interleaved calls (SpecRace) *)

\* C30: under any interleaving of the calls, every stored response belongs to
\* a stored form, and its schema_version is at least 1 and at most the
\* current schema_version of that form.
C30_ResponseVersionWithinForm ==
    \A r \in responses :
        /\ r.formId \in DOMAIN forms
        /\ 1 <= r.schema_version
        /\ r.schema_version <= forms[r.formId].schema_version

\* An update that read the form at version 1 wrote last, after two other
\* updates and a submission at version 3: the form is at version 2 and its
\* response at version 3.
C30_StaleWriteLowersVersion ==
    /\ Succeeded("atualizarSchemaFormulario")
    /\ forms[lastOp.id].schema_version = 2
    /\ \E r \in responses : r.formId = lastOp.id /\ r.schema_version = 3

=============================================================================
